---- MODULE Spec2Model ----
(***************************************************************************)
(* A model of into's RegexDispatcher (src/into/regex.py) and of the        *)
(* opening and closing of resources by HDFFile and HDFTable                *)
(* (src/into/backends/hdf.py).                                             *)
(*                                                                         *)
(* Python strings are sequences of one-character strings, so that          *)
(* normalize's lstrip/rstrip and re.match act on the characters.  The      *)
(* regular expressions the model draws use this fragment of Python's re    *)
(* syntax: literal characters, a backslash escape of a punctuation         *)
(* character, ^, $, | and the postfix star.                                *)
(***************************************************************************)
EXTENDS Integers, Sequences, FiniteSets, TLC

----------------------------------------------------------------------------
(* The bounds of the model.                                                *)

\* At most this many patterns are stored, over all dispatcher instances.
MaxFuncs == 3

\* At most this many with-blocks are entered one inside the other.
MaxDepth == 2

----------------------------------------------------------------------------
(* The program's constant.                                                 *)

\* add's and register's default priority.
DefaultPriority == 10

----------------------------------------------------------------------------
(* The inputs.                                                             *)

BSL == "\\"
NL  == "\n"

\* The regular expressions handed to add/register.
Regexes ==
    { <<"a">>,                 \* a
      <<"^", "a", "$">>,       \* ^a$
      <<"a", "|", "b">>,       \* a|b
      <<"a", BSL, "$">>,       \* a\$
      <<"a", "*">>,            \* a*
      <<"*">> }                \* * (not a regular expression: nothing to repeat)

\* Those handed to the two dispatchers of SpecNested.
NestedRegexes == { <<"a">>, <<"a", "|", "b">> }

\* The strings handed to the dispatcher.
Inputs ==
    { <<"a">>,
      <<"b">>,
      <<"a", "c">>,
      <<"a", "$">>,
      <<"a", "$", "b">>,
      <<"a", NL>> }

\* The callables handed to add/register; what one does when called is its own.
Handlers == {"f", "g"}

Priorities == {5, DefaultPriority}

\* The dispatcher instances: handlers registered with "outer" may call "inner".
Dispatchers == {"outer", "inner"}

\* The HDF5 resources, one HDFFile each.
Files == {"x", "y"}

\* The threads that call add while others do.
Writers == {"w1", "w2", "w3", "w4"}

VARIABLES
    funcs,       \* funcs[d]: d.funcs, the dict regex -> func in iteration order
    priorities,  \* priorities[d]: d.priorities, the dict func -> priority
    stack,       \* the dispatcher calls in progress, the innermost last
    adds,        \* adds[w]: the call of add the thread w makes, and where it is
    hdf          \* the HDF5 resource, its HDFFile and the with-blocks entered

vars == << funcs, priorities, stack, adds, hdf >>

----------------------------------------------------------------------------
(* str.lstrip, str.rstrip and normalize.                                   *)

RECURSIVE LStrip(_, _)
LStrip(r, c) ==
    IF r # <<>> /\ Head(r) = c THEN LStrip(Tail(r), c) ELSE r

RECURSIVE RStrip(_, _)
RStrip(r, c) ==
    IF r # <<>> /\ r[Len(r)] = c THEN RStrip(SubSeq(r, 1, Len(r) - 1), c) ELSE r

\* ('^' + r + '$': the anchors of r are kept)
normalizeNoStrip(r) == << "^" >> \o r \o << "$" >>

normalize(r) == <<"^">> \o RStrip(LStrip(r, "^"), "$") \o <<"$">>

----------------------------------------------------------------------------
(* re: parsing and matching of the fragment.                               *)

\* The pattern as tokens: a literal (escaped or not), ^, $, |, *, or a
\* backslash that ends the pattern ("bad escape (end of pattern)").
RECURSIVE Tokens(_)
Tokens(r) ==
    IF r = <<>> THEN <<>>
    ELSE IF Head(r) = BSL
         THEN IF Len(r) = 1
              THEN << [k |-> "bad", c |-> BSL] >>
              ELSE << [k |-> "lit", c |-> r[2]] >> \o Tokens(SubSeq(r, 3, Len(r)))
    ELSE IF Head(r) = "^" THEN << [k |-> "bol", c |-> "^"] >> \o Tokens(Tail(r))
    ELSE IF Head(r) = "$" THEN << [k |-> "eol", c |-> "$"] >> \o Tokens(Tail(r))
    ELSE IF Head(r) = "|" THEN << [k |-> "alt", c |-> "|"] >> \o Tokens(Tail(r))
    ELSE IF Head(r) = "*" THEN << [k |-> "star", c |-> "*"] >> \o Tokens(Tail(r))
    ELSE << [k |-> "lit", c |-> Head(r)] >> \o Tokens(Tail(r))

\* re.compile succeeds: no dangling backslash, and every * repeats a literal.
Compiles(r) ==
    LET t == Tokens(r) IN
    \A i \in 1..Len(t) :
        /\ t[i].k # "bad"
        /\ t[i].k = "star" => (i > 1 /\ t[i - 1].k = "lit")

\* The branches of the pattern: the token sequences between the |.
RECURSIVE SplitAlt(_, _)
SplitAlt(t, cur) ==
    IF t = <<>> THEN << cur >>
    ELSE IF Head(t).k = "alt" THEN << cur >> \o SplitAlt(Tail(t), <<>>)
    ELSE SplitAlt(Tail(t), Append(cur, Head(t)))

\* One token applied to the positions P of s (a position is the number of
\* characters consumed): the positions after it.
StepTok(tok, s, P) ==
    CASE tok.k = "lit" -> { p + 1 : p \in { q \in P : q < Len(s) /\ s[q + 1] = tok.c } }
      [] tok.k = "bol" -> { p \in P : p = 0 }
      [] tok.k = "eol" -> { p \in P : \/ p = Len(s)
                                      \/ p = Len(s) - 1 /\ s[Len(s)] = NL }
      [] OTHER -> {}

\* Zero or more repetitions of a token.
RECURSIVE StarTok(_, _, _)
StarTok(tok, s, P) ==
    LET Q == P \cup StepTok(tok, s, P) IN
    IF Q = P THEN P ELSE StarTok(tok, s, Q)

\* The positions one branch can end at, starting from the positions P.
RECURSIVE BranchEnds(_, _, _)
BranchEnds(t, s, P) ==
    IF t = <<>> THEN P
    ELSE IF Len(t) >= 2 /\ t[2].k = "star"
         THEN BranchEnds(SubSeq(t, 3, Len(t)), s, StarTok(t[1], s, P))
         ELSE BranchEnds(Tail(t), s, StepTok(t[1], s, P))

\* The positions a match of r that starts at the start of s can end at.
MatchEnds(r, s) ==
    LET b == SplitAlt(Tokens(r), <<>>) IN
    UNION { BranchEnds(b[i], s, {0}) : i \in 1..Len(b) }

\* re.match(r, s) is not None, for a pattern that compiles.
ReMatch(r, s) == MatchEnds(r, s) # {}

\* re.fullmatch(r, s) is not None: r matches the whole of s.
ReFullMatch(r, s) == Len(s) \in MatchEnds(r, s)

----------------------------------------------------------------------------
(* Python values and exceptions.                                           *)

None == [by |-> "None", of |-> <<>>]

\* What the handler f returns for the input s.
Result(f, s) == [by |-> f, of |-> s]

NoExc == [cls |-> "", args |-> <<>>]

\* A handler declines: raise NotImplementedError().
Unhandled == [cls |-> "NotImplementedError", args |-> <<>>]

\* A handler fails with something else.
HandlerError == [cls |-> "ValueError", args |-> <<>>]

\* re.match on a stored pattern that does not compile.
PatternError == [cls |-> "re.error", args |-> <<>>]

\* The message of the exception that ends __call__, as one string.
NoMatchMessage == << "unable to match any regexes for dispatching" >>

\* __call__'s last line: raise NotImplementedError("unable to match ...").
NoMatch(s) == [cls |-> "NotImplementedError", args |-> << NoMatchMessage >>]

NoOut == [kind |-> "none", val |-> None, exc |-> NoExc]
Returned(v) == [kind |-> "return", val |-> v, exc |-> NoExc]
Raised(e) == [kind |-> "raise", val |-> None, exc |-> e]

----------------------------------------------------------------------------
(* The dicts.                                                              *)

Keys(fs) == { fs[i].regex : i \in 1..Len(fs) }

\* list.insert
InsertAt(fs, pos, e) == SubSeq(fs, 1, pos) \o << e >> \o SubSeq(fs, pos + 1, Len(fs))

\* (self.funcs = {key: f}: the dict replaced, not updated)
DictReset(fs, key, f) == << [regex |-> key, func |-> f] >>

\* (self.funcs.append((key, f)): a list of pairs, not a dict)
DictAppend(fs, key, f) == Append(fs, [regex |-> key, func |-> f])

\* fs[key] = f: an existing key keeps its place in the iteration order and a
\* new key comes last (dicts keep insertion order).  Every order of the keys
\* is the insertion order of some sequence of add calls, so the states
\* reached cover the dicts of a Python that iterates in another order.
DictSet(fs, key, f) ==
    IF key \in Keys(fs)
    THEN [ i \in 1..Len(fs) |->
             IF fs[i].regex = key THEN [regex |-> key, func |-> f] ELSE fs[i] ]
    ELSE Append(fs, [regex |-> key, func |-> f])

\* (self.priorities.setdefault(f, p): a priority once set is kept)
PrioritySetDefault(ps, f, p) ==
    [ h \in DOMAIN ps \cup {f} |-> IF h \in DOMAIN ps THEN ps[h] ELSE p ]

\* (self.priorities = {f: p}: the dict replaced, not updated)
PriorityReset(ps, f, p) == [ h \in {f} |-> p ]

\* ps[f] = p
PrioritySet(ps, f, p) ==
    [ h \in DOMAIN ps \cup {f} |-> IF h = f THEN p ELSE ps[h] ]

\* The number of patterns stored, over all instances.
Stored == Len(funcs["outer"]) + Len(funcs["inner"])

\* A thread that has not called add.
NoAdd == [pc |-> "idle", regex |-> <<>>, func |-> "", priority |-> DefaultPriority]

\* No HDFFile is constructed and no with-block is entered.  file[x]: the
\* HDFFile of the resource x is constructed; rsrc[x]: its resource is open
\* or closed; last[x]: the last of create and cleanup applied to it; blocks:
\* the with-blocks entered and not left, the innermost last; exc: an
\* exception is propagating.
NoFile ==
    [file   |-> [x \in Files |-> FALSE],
     rsrc   |-> [x \in Files |-> "closed"],
     last   |-> [x \in Files |-> "none"],
     blocks |-> <<>>,
     exc    |-> FALSE]

----------------------------------------------------------------------------
(* RegexDispatcher.                                                        *)

\* __init__: both dicts empty.
Init ==
    /\ funcs = [d \in Dispatchers |-> <<>>]
    /\ priorities = [d \in Dispatchers |-> <<>>]
    /\ stack = <<>>
    /\ adds = [w \in Writers |-> NoAdd]
    /\ hdf = NoFile

\* (funcs and priorities as attributes of the class: one pair of dicts for
\* all the instances)
AddShared(d, r, f, p) ==
    /\ stack = <<>>
    /\ normalize(r) \in Keys(funcs[d]) \/ Stored < MaxFuncs
    /\ funcs' = [e \in Dispatchers |-> DictSet(funcs[e], normalize(r), f)]
    /\ priorities' = [e \in Dispatchers |-> PrioritySet(priorities[e], f, p)]
    /\ UNCHANGED << stack, adds, hdf >>

\* add(regex, func, priority), and register(regex, priority)(func), which
\* is add and nothing else.  No call of the same thread is in progress.
Add(d, r, f, p) ==
    /\ stack = <<>>
    /\ normalize(r) \in Keys(funcs[d]) \/ Stored < MaxFuncs
    /\ funcs' = [funcs EXCEPT ![d] = DictSet(funcs[d], normalize(r), f)]
    /\ priorities' = [priorities EXCEPT ![d] = PrioritySet(priorities[d], f, p)]
    /\ UNCHANGED << stack, adds, hdf >>

\* (sorted without reverse=True: the lowest priority first)
RECURSIVE dispatch_iter_ascending(_, _)
dispatch_iter_ascending(fns, prio) ==
    IF fns = <<>> THEN <<>>
    ELSE LET rest == dispatch_iter_ascending(Tail(fns), prio)
             h    == Head(fns)
             n    == Cardinality({ i \in 1..Len(rest) : prio[rest[i]] < prio[h] })
         IN  InsertAt(rest, n, h)

\* sorted(fns, key=priorities.get, reverse=True): the list in non-increasing
\* order of priority, handlers of equal priority in the order of fns (the sort
\* is stable, also with reverse=True).
RECURSIVE dispatch_iter(_, _)
dispatch_iter(fns, prio) ==
    IF fns = <<>> THEN <<>>
    ELSE LET rest == dispatch_iter(Tail(fns), prio)
             h    == Head(fns)
             \* h goes before the first handler of rest below its priority,
             \* and, as the earliest of its priority, before its equals
             n    == Cardinality({ i \in 1..Len(rest) : prio[rest[i]] > prio[h] })
         IN  InsertAt(rest, n, h)

\* (a handler listed once, however many of its patterns match)
RECURSIVE MatchingDistinct(_, _)
MatchingDistinct(fs, s) ==
    IF fs = <<>> THEN <<>>
    ELSE LET rest == MatchingDistinct(Tail(fs), s) IN
         IF /\ ReMatch(Head(fs).regex, s)
            /\ \A i \in 1..Len(rest) : rest[i] # Head(fs).func
         THEN << Head(fs).func >> \o rest
         ELSE rest

\* The list comprehension of dispatch: the handlers whose pattern matches s,
\* in the dict's iteration order.
RECURSIVE Matching(_, _)
Matching(fs, s) ==
    IF fs = <<>> THEN <<>>
    ELSE IF ReMatch(Head(fs).regex, s)
         THEN << Head(fs).func >> \o Matching(Tail(fs), s)
         ELSE Matching(Tail(fs), s)

\* dispatch(s) on the dicts fs and ps, for stored patterns that compile.
Candidates(fs, ps, s) == dispatch_iter(Matching(fs, s), ps)

dispatch(d, s) == Candidates(funcs[d], priorities[d], s)

\* re.match raises re.error on the first stored pattern that does not compile
\* (the comprehension tests every stored pattern).
DispatchRaises(d) == \E i \in 1..Len(funcs[d]) : ~Compiles(funcs[d][i].regex)

\* The frame of d(s) when __call__ has evaluated self.dispatch(s).
\* log holds, per handler called so far, what the call ended in.
Enter(d, s) ==
    IF DispatchRaises(d)
    THEN [d |-> d, s |-> s, cands |-> <<>>, log |-> <<>>, st |-> "done",
          out |-> Raised(PatternError)]
    ELSE [d |-> d, s |-> s, cands |-> dispatch(d, s), log |-> <<>>, st |-> "loop",
          out |-> NoOut]

Top == stack[Len(stack)]

SetTop(fr) == [stack EXCEPT ![Len(stack)] = fr]

\* The handler the loop of a frame is at.
Current(fr) == fr.cands[Len(fr.log) + 1]

\* (except Exception: continue)
AfterHandlerCatchAll(fr, o) ==
    LET logged == [fr EXCEPT !.log = Append(fr.log, [func |-> Current(fr), out |-> o])] IN
    IF o.kind = "raise"
    THEN [logged EXCEPT !.st = "loop"]
    ELSE [logged EXCEPT !.st = "done", !.out = o]

\* (f(s) called and its result dropped: the call returns None)
AfterHandlerNoReturn(fr, o) ==
    LET logged == [fr EXCEPT !.log = Append(fr.log, [func |-> Current(fr), out |-> o])] IN
    IF o.kind = "raise" /\ o.exc.cls = "NotImplementedError"
    THEN [logged EXCEPT !.st = "loop"]
    ELSE [logged EXCEPT !.st = "done",
                        !.out = IF o.kind = "return" THEN Returned(None) ELSE o]

\* try: return f(s) / except NotImplementedError: continue, for the handler
\* call that ended in o.
AfterHandler(fr, o) ==
    LET logged == [fr EXCEPT !.log = Append(fr.log, [func |-> Current(fr), out |-> o])] IN
    IF o.kind = "raise" /\ o.exc.cls = "NotImplementedError"
    THEN [logged EXCEPT !.st = "loop"]
    ELSE [logged EXCEPT !.st = "done", !.out = o]

\* The loop is over: raise NotImplementedError("unable to match ...").
AfterLoop(fr) == [fr EXCEPT !.st = "done", !.out = Raised(NoMatch(fr.s))]

\* A caller calls d(s).
Call(d, s) ==
    /\ stack = <<>>
    /\ stack' = << Enter(d, s) >>
    /\ UNCHANGED << funcs, priorities, adds, hdf >>

\* The handler the loop is at returns its result.
HandlerReturns ==
    /\ stack # <<>> /\ Top.st = "loop" /\ Len(Top.log) < Len(Top.cands)
    /\ stack' = SetTop(AfterHandler(Top, Returned(Result(Current(Top), Top.s))))
    /\ UNCHANGED << funcs, priorities, adds, hdf >>

\* The handler the loop is at raises: NotImplementedError to decline, or
\* another exception.
HandlerRaises(e) ==
    /\ stack # <<>> /\ Top.st = "loop" /\ Len(Top.log) < Len(Top.cands)
    /\ stack' = SetTop(AfterHandler(Top, Raised(e)))
    /\ UNCHANGED << funcs, priorities, adds, hdf >>

\* The handler the loop of "outer" is at calls inner(s) and lets its result
\* or its exception through.
HandlerCallsInner ==
    /\ Len(stack) = 1 /\ Top.d = "outer"
    /\ Top.st = "loop" /\ Len(Top.log) < Len(Top.cands)
    /\ stack' = Append(SetTop([Top EXCEPT !.st = "handler"]), Enter("inner", Top.s))
    /\ UNCHANGED << funcs, priorities, adds, hdf >>

\* The loop has no handler left.
Exhausted ==
    /\ stack # <<>> /\ Top.st = "loop" /\ Len(Top.log) = Len(Top.cands)
    /\ stack' = SetTop(AfterLoop(Top))
    /\ UNCHANGED << funcs, priorities, adds, hdf >>

\* inner(s) is over: the handler of "outer" that called it ends as it did.
InnerDone ==
    /\ Len(stack) = 2 /\ Top.st = "done"
    /\ stack' = << AfterHandler(stack[1], Top.out) >>
    /\ UNCHANGED << funcs, priorities, adds, hdf >>

\* The caller has the result or the exception of its call.
CallDone ==
    /\ Len(stack) = 1 /\ Top.st = "done"
    /\ stack' = <<>>
    /\ UNCHANGED << funcs, priorities, adds, hdf >>

\* A caller registers a handler with d: r from R, the priority from P.
Register(d, R, P) ==
    \E r \in R, f \in Handlers, p \in P : Add(d, r, f, p)

\* One dispatcher, "outer", its callers and its handlers.
Next ==
    \/ Register("outer", Regexes, Priorities)
    \/ \E s \in Inputs : Call("outer", s)
    \/ HandlerReturns
    \/ \E e \in {Unhandled, HandlerError} : HandlerRaises(e)
    \/ Exhausted
    \/ CallDone

Spec == Init /\ [][Next]_vars

\* Two dispatchers, the handlers of "outer" calling "inner" or not.
NextNested ==
    \/ Register("outer", NestedRegexes, Priorities)
    \/ Register("inner", NestedRegexes, {DefaultPriority})
    \/ \E d \in Dispatchers, s \in Inputs : Call(d, s)
    \/ HandlerReturns
    \/ \E e \in {Unhandled, HandlerError} : HandlerRaises(e)
    \/ HandlerCallsInner
    \/ Exhausted
    \/ InnerDone
    \/ CallDone

SpecNested == Init /\ [][NextNested]_vars

----------------------------------------------------------------------------
(* add and the dispatcher called by several threads.  add takes no lock,   *)
(* and a thread may be preempted between its two writes.                   *)

\* The regular expressions and the inputs of the threads.
ConcRegexes == { <<"a">>, <<"a", "|", "b">> }

ConcInputs == { <<"a">>, <<"b">> }

\* The threads of SpecConcurrent.
Racers == {"w1", "w2"}

\* The thread w calls add(r, f, p) and runs its first line:
\* self.funcs[normalize(regex)] = func.
AddFuncs(w, r, f, p) ==
    /\ adds[w].pc = "idle"
    /\ normalize(r) \in Keys(funcs["outer"]) \/ Stored < MaxFuncs
    /\ funcs' = [funcs EXCEPT !["outer"] = DictSet(funcs["outer"], normalize(r), f)]
    /\ adds' = [adds EXCEPT ![w] =
                  [pc |-> "priorities", regex |-> r, func |-> f, priority |-> p]]
    /\ UNCHANGED << priorities, stack, hdf >>

\* The thread w runs the second line of its add:
\* self.priorities[func] = priority, and the call is over.
AddPriorities(w) ==
    /\ adds[w].pc = "priorities"
    /\ priorities' = [priorities EXCEPT !["outer"] =
                        PrioritySet(priorities["outer"], adds[w].func, adds[w].priority)]
    /\ adds' = [adds EXCEPT ![w].pc = "done"]
    /\ UNCHANGED << funcs, stack, hdf >>

\* The handlers of fns for which priorities.get gives None.
Unranked(fns, ps) == { i \in 1..Len(fns) : fns[i] \notin DOMAIN ps }

\* Python 3: sorted compares None with a priority, or with None.
SortError == [cls |-> "TypeError", args |-> <<>>]

\* Python 2: None is below every number (the priorities drawn are above 0).
NoneLowest(fns, ps) ==
    [ h \in DOMAIN ps \cup { fns[i] : i \in 1..Len(fns) } |->
        IF h \in DOMAIN ps THEN ps[h] ELSE 0 ]

\* The frames d(s) may start with when its dispatch(s) reads the dicts as
\* they are, an add of another thread between its two lines or not.  sorted
\* of two or more handlers compares the keys of all of them.
EnterUnlocked(d, s) ==
    LET fns == Matching(funcs[d], s) IN
    IF DispatchRaises(d) \/ Unranked(fns, priorities[d]) = {}
    THEN { Enter(d, s) }
    ELSE { [d |-> d, s |-> s, cands |-> dispatch_iter(fns, NoneLowest(fns, priorities[d])),
            log |-> <<>>, st |-> "loop", out |-> NoOut],
           IF Len(fns) >= 2
           THEN [d |-> d, s |-> s, cands |-> <<>>, log |-> <<>>, st |-> "done",
                 out |-> Raised(SortError)]
           ELSE [d |-> d, s |-> s, cands |-> fns, log |-> <<>>, st |-> "loop",
                 out |-> NoOut] }

\* A thread calls outer(s) while others may be in add.
CallUnlocked(s) ==
    /\ stack = <<>>
    /\ \E fr \in EnterUnlocked("outer", s) : stack' = << fr >>
    /\ UNCHANGED << funcs, priorities, adds, hdf >>

\* Two threads in add and one calling the dispatcher.
NextConcurrent ==
    \/ \E w \in Racers, r \in ConcRegexes, f \in Handlers, p \in Priorities :
          AddFuncs(w, r, f, p)
    \/ \E w \in Racers : AddPriorities(w)
    \/ \E s \in ConcInputs : CallUnlocked(s)
    \/ HandlerReturns
    \/ \E e \in {Unhandled, HandlerError} : HandlerRaises(e)
    \/ Exhausted
    \/ CallDone

SpecConcurrent == Init /\ [][NextConcurrent]_vars

\* Four threads, each calling add once.
NextWriters ==
    \/ \E w \in Writers, r \in ConcRegexes, f \in Handlers, p \in Priorities :
          AddFuncs(w, r, f, p)
    \/ \E w \in Writers : AddPriorities(w)

SpecWriters == Init /\ [][NextWriters]_vars

----------------------------------------------------------------------------
(* HDFFile and HDFTable.  create and cleanup are dispatched on the type of *)
(* the resource; of what they do the model keeps what __enter__ and        *)
(* __exit__ call them for: create makes sure the resource is open and      *)
(* gives it back, cleanup makes sure it is closed.                         *)

create(rsrc) == "open"

cleanup(rsrc) == "closed"

\* HDFFile.create and HDFFile.cleanup on the HDFFile of x.
FileCreate(x) ==
    [hdf EXCEPT !.rsrc[x] = create(hdf.rsrc[x]), !.last[x] = "create"]

FileCleanup(x) ==
    [hdf EXCEPT !.rsrc[x] = cleanup(hdf.rsrc[x]), !.last[x] = "cleanup"]

\* with-blocks are entered and left by code that runs, not while an
\* exception propagates.
Running == ~hdf.exc

\* HDFFile(rsrc) for the resource x, handed over open or closed:
\* __init__ cleans it up.
Construct(x) ==
    /\ Running /\ ~hdf.file[x]
    /\ \E handed \in {"open", "closed"} :
          hdf' = [hdf EXCEPT !.file[x] = TRUE, !.rsrc[x] = cleanup(handed),
                             !.last[x] = "cleanup"]
    /\ UNCHANGED << funcs, priorities, stack, adds >>

\* with f: HDFFile.__enter__ returns self.create().
EnterFile(x) ==
    /\ Running /\ hdf.file[x] /\ Len(hdf.blocks) < MaxDepth
    /\ hdf' = [FileCreate(x) EXCEPT
                 !.blocks = Append(hdf.blocks, [kind |-> "file", parent |-> x])]
    /\ UNCHANGED << funcs, priorities, stack, adds >>

\* with t, for a table t of the HDFFile of x: HDFTable.__enter__ calls
\* self.parent.create() and then get_table on the handle; get_table returns
\* the node and the block is entered.
EnterTable(x) ==
    /\ Running /\ hdf.file[x] /\ Len(hdf.blocks) < MaxDepth
    /\ hdf' = [FileCreate(x) EXCEPT
                 !.blocks = Append(hdf.blocks, [kind |-> "table", parent |-> x])]
    /\ UNCHANGED << funcs, priorities, stack, adds >>

\* with t, get_table raising (no implementation for the handle, or no such
\* node): __enter__ ends in the exception after parent.create(), the block
\* is not entered and its __exit__ is not called.
EnterTableFails(x) ==
    /\ Running /\ hdf.file[x] /\ Len(hdf.blocks) < MaxDepth
    /\ hdf' = [FileCreate(x) EXCEPT !.exc = TRUE]
    /\ UNCHANGED << funcs, priorities, stack, adds >>

\* The body of the innermost block raises.
BodyFails ==
    /\ Running /\ hdf.blocks # <<>>
    /\ hdf' = [hdf EXCEPT !.exc = TRUE]
    /\ UNCHANGED << funcs, priorities, stack, adds >>

\* The innermost block is over, its body at its end or an exception coming
\* out of it: __exit__ calls cleanup on the parent (on the HDFFile itself)
\* and returns None, so the exception goes on.
ExitBlock ==
    /\ hdf.blocks # <<>>
    /\ hdf' = [FileCleanup(hdf.blocks[Len(hdf.blocks)].parent) EXCEPT
                 !.blocks = SubSeq(hdf.blocks, 1, Len(hdf.blocks) - 1)]
    /\ UNCHANGED << funcs, priorities, stack, adds >>

\* The exception has left the outermost block and its caller handles it.
Handled ==
    /\ hdf.exc /\ hdf.blocks = <<>>
    /\ hdf' = [hdf EXCEPT !.exc = FALSE]
    /\ UNCHANGED << funcs, priorities, stack, adds >>

\* The with-statements of the module and of its callers; the append of a
\* table to a table is with t: with data: append(...), that is EnterTable,
\* EnterTable, ExitBlock, ExitBlock.
NextHDF ==
    \/ \E x \in Files : Construct(x)
    \/ \E x \in Files : EnterFile(x)
    \/ \E x \in Files : EnterTable(x)
    \/ \E x \in Files : EnterTableFails(x)
    \/ BodyFails
    \/ ExitBlock
    \/ Handled

SpecHDF == Init /\ [][NextHDF]_vars

----------------------------------------------------------------------------
(* What the properties speak of.                                           *)

\* Raising NotImplementedError is how a handler signals Unhandled.
Declined(o) == o.kind = "raise" /\ o.exc.cls = "NotImplementedError"

\* The handlers a frame has called, in the order of the calls: those whose
\* call is over and the one that is calling inner(s).
Invoked(fr) ==
    [ i \in 1..Len(fr.log) |-> fr.log[i].func ]
        \o (IF fr.st = "handler" THEN << Current(fr) >> ELSE <<>>)

\* The stored entries of d whose pattern re.match finds in s.
MatchingEntries(d, s) ==
    { i \in 1..Len(funcs[d]) : ReMatch(funcs[d][i].regex, s) }

\* self.funcs[key]
Lookup(fs, key) == fs[CHOOSE i \in 1..Len(fs) : fs[i].regex = key].func

\* The handlers stored in fs.
Funcs(fs) == { fs[i].func : i \in 1..Len(fs) }

----------------------------------------------------------------------------
(* C1: a dispatcher call invokes only handlers whose pattern matches the   *)
(* input, in non-increasing order of priority, every matching entry of a   *)
(* higher priority before, and each only after all the handlers invoked    *)
(* before it have raised NotImplementedError.                              *)
PriorityOrder ==
    \A n \in 1..Len(stack) :
        LET fr   == stack[n]
            inv  == Invoked(fr)
            prio == priorities[fr.d]
        IN  \A k \in 1..Len(inv) :
              /\ \E i \in MatchingEntries(fr.d, fr.s) : funcs[fr.d][i].func = inv[k]
              /\ \A j \in 1..(k - 1) : prio[inv[j]] >= prio[inv[k]]
              /\ Cardinality({ i \in MatchingEntries(fr.d, fr.s) :
                                  prio[funcs[fr.d][i].func] > prio[inv[k]] }) <= k - 1
              /\ \A j \in 1..(k - 1) : Declined(fr.log[j].out)

\* B (priority 10) has declined and A (priority 5) has been invoked after it.
PriorityOrderWitness ==
    \E n \in 1..Len(stack) :
        LET fr == stack[n] IN
        /\ Len(fr.log) = 2
        /\ priorities[fr.d][fr.log[1].func] = 10
        /\ priorities[fr.d][fr.log[2].func] = 5
        /\ fr.log[1].out = Raised(Unhandled)

----------------------------------------------------------------------------
(* C2: an input that a registered pattern matches only as a prefix, not as *)
(* the whole string, is never among the candidates of that pattern's       *)
(* entry.  The entry stored under a key was registered with one of the     *)
(* patterns r that normalize to the key.                                   *)
Anchoring ==
    \A d \in Dispatchers : \A i \in 1..Len(funcs[d]) :
        \A r \in Regexes : \A s \in Inputs :
            ( /\ normalize(r) = funcs[d][i].regex
              /\ ~DispatchRaises(d)
              /\ i \in MatchingEntries(d, s) )
            => ReFullMatch(r, s)

----------------------------------------------------------------------------
(* C3: a call in which no handler was invoked, or every handler invoked    *)
(* declined, ends in the NoMatch failure.                                  *)
NoMatchFailure ==
    \A n \in 1..Len(stack) :
        LET fr == stack[n] IN
        ( /\ fr.st = "done"
          /\ \A k \in 1..Len(fr.log) : Declined(fr.log[k].out) )
        => fr.out = Raised(NoMatch(fr.s))

----------------------------------------------------------------------------
(* C4: once a handler has failed with anything but NotImplementedError,    *)
(* the call is over with exactly that failure, and that handler is the     *)
(* last one invoked.                                                       *)
FatalPassthrough ==
    \A n \in 1..Len(stack) :
        LET fr == stack[n] IN
        \A k \in 1..Len(fr.log) :
            (fr.log[k].out.kind = "raise" /\ ~Declined(fr.log[k].out))
            => /\ fr.st = "done"
               /\ fr.out = fr.log[k].out
               /\ k = Len(Invoked(fr))

\* The first of two candidates has failed: the call is over, the second
\* candidate not invoked.
FatalPassthroughWitness ==
    \E n \in 1..Len(stack) :
        LET fr == stack[n] IN
        /\ fr.st = "done"
        /\ Len(fr.cands) = 2
        /\ Len(fr.log) = 1
        /\ fr.log[1].out = Raised(HandlerError)

----------------------------------------------------------------------------
(* C5: no stored pattern is malformed, and no dispatcher call fails on a   *)
(* malformed stored pattern.                                               *)
NoMalformedPattern ==
    /\ \A d \in Dispatchers : \A i \in 1..Len(funcs[d]) : Compiles(funcs[d][i].regex)
    /\ \A n \in 1..Len(stack) : stack[n].out # Raised(PatternError)

----------------------------------------------------------------------------
(* C6: a call that returns returns what the last handler invoked returned, *)
(* every handler invoked before it has declined, and the handlers invoked  *)
(* are the first of the candidates in priority order.                      *)
SuccessReturnsFirst ==
    \A n \in 1..Len(stack) :
        LET fr == stack[n] IN
        (fr.st = "done" /\ fr.out.kind = "return")
        => /\ Len(fr.log) >= 1
           /\ fr.out = fr.log[Len(fr.log)].out
           /\ \A j \in 1..(Len(fr.log) - 1) : Declined(fr.log[j].out)
           /\ Invoked(fr) = SubSeq(dispatch(fr.d, fr.s), 1, Len(fr.log))
           /\ Cardinality({ i \in MatchingEntries(fr.d, fr.s) :
                               priorities[fr.d][funcs[fr.d][i].func]
                                   > priorities[fr.d][fr.log[Len(fr.log)].func] })
                  <= Len(fr.log) - 1

\* The second candidate has returned after the first declined, or the
\* first of two has returned.
SuccessReturnsFirstWitness ==
    \E n \in 1..Len(stack) :
        LET fr == stack[n] IN
        /\ fr.st = "done" /\ fr.out.kind = "return"
        /\ Len(fr.cands) = 2
        /\ fr.out.val = Result(fr.cands[Len(fr.log)], fr.s)

\* The dispatchers a step may have registered a handler with: no call is in
\* progress before or after the step, and a dict of the dispatcher has changed.
Registering ==
    { d \in Dispatchers :
        /\ stack = <<>> /\ stack' = <<>>
        /\ funcs'[d] # funcs[d] \/ priorities'[d] # priorities[d] }

----------------------------------------------------------------------------
(* C7, as claimed: no register call removes or replaces a registration:    *)
(* every (pattern, handler) entry stored before a step is stored after it. *)
NoRegistrationReplaced ==
    [][ \A d \in Dispatchers : \A i \in 1..Len(funcs[d]) :
          \E j \in 1..Len(funcs'[d]) : funcs'[d][j] = funcs[d][i] ]_vars

(* C7, amended: a register call removes no stored pattern and no priority, *)
(* and changes no entry but that of the normalized pattern it registers,   *)
(* whose handler becomes the one registered.                               *)
PatternsOnlyGrow ==
    [][ \A d \in Registering, r \in Regexes, f \in Handlers, p \in Priorities :
          Add(d, r, f, p)
          => /\ \A k \in Keys(funcs[d]) :
                  /\ k \in Keys(funcs'[d])
                  /\ Lookup(funcs'[d], k) =
                         IF k = normalize(r) THEN f ELSE Lookup(funcs[d], k)
             /\ Len(funcs'[d]) >= Len(funcs[d])
             /\ DOMAIN priorities[d] \subseteq DOMAIN priorities'[d] ]_vars

\* A register call has replaced the handler of a stored pattern: the handler
\* replaced has its priority and is stored no more.
PatternsOnlyGrowWitness ==
    \E d \in Dispatchers : \E h \in DOMAIN priorities[d] :
        /\ h \notin Funcs(funcs[d])
        /\ Len(funcs[d]) = 2

----------------------------------------------------------------------------
(* C8: a register call of a handler f that has a priority sets f's one     *)
(* priority to the new one and leaves the other handlers' priorities and   *)
(* the entries of the other patterns as they were; and after any register  *)
(* call the candidates of every input stand in the order of the priorities *)
(* then recorded, so f stands by its new priority wherever it occurs.      *)
ReRegisterSetsPriority ==
    /\ [][ \A d \in Registering, r \in Regexes, f \in Handlers, p \in Priorities :
              (f \in DOMAIN priorities[d] /\ Add(d, r, f, p))
              => /\ DOMAIN priorities'[d] = DOMAIN priorities[d]
                 /\ priorities'[d][f] = p
                 /\ \A h \in DOMAIN priorities[d] \ {f} :
                        priorities'[d][h] = priorities[d][h]
                 /\ \A k \in Keys(funcs[d]) \ {normalize(r)} :
                        /\ k \in Keys(funcs'[d])
                        /\ Lookup(funcs'[d], k) = Lookup(funcs[d], k) ]_vars
    /\ [](stack = <<>> =>
            \A d \in Dispatchers, s \in Inputs : \A c \in { dispatch(d, s) } :
                \A i \in 1..Len(c) : \A j \in (i + 1)..Len(c) :
                    priorities[d][c[i]] >= priorities[d][c[j]])

\* f is stored under two patterns, which took a second register call of f,
\* and has the priority that is not the default, and another handler has one.
ReRegisterSetsPriorityWitness ==
    \E d \in Dispatchers : \E f \in DOMAIN priorities[d] :
        /\ Cardinality({ i \in 1..Len(funcs[d]) : funcs[d][i].func = f }) = 2
        /\ priorities[d][f] # DefaultPriority
        /\ DOMAIN priorities[d] # {f}

----------------------------------------------------------------------------
(* C9: the NoMatch failure of a call carries the input of the call.        *)
NoMatchCarriesInput ==
    \A n \in 1..Len(stack) :
        LET fr == stack[n] IN
        (fr.st = "done" /\ Declined(fr.out))
        => \E k \in 1..Len(fr.out.exc.args) : fr.out.exc.args[k] = fr.s

----------------------------------------------------------------------------
(* C10: NoMatch is not the decline signal: a dispatcher whose handler ends *)
(* in the NoMatch failure of the dispatcher it called does not go on to    *)
(* its next candidate, but is over with that failure.                      *)
NoMatchIsNotDecline ==
    \A n \in 1..Len(stack) :
        LET fr == stack[n] IN
        \A k \in 1..Len(fr.log) :
            fr.log[k].out = Raised(NoMatch(fr.s))
            => (fr.st = "done" /\ fr.out = fr.log[k].out)

----------------------------------------------------------------------------
(* C11: a dispatcher call that runs while another thread is in add never   *)
(* reads the dicts between the two writes of that add (the pattern stored, *)
(* the priority of its handler not yet), and it never ends in an error of  *)
(* the dispatcher's own sort.                                              *)
NoTornRead ==
    /\ [][ (stack = <<>> /\ stack' # <<>>)
              => \A w \in Racers : adds[w].pc # "priorities" ]_vars
    /\ [](\A n \in 1..Len(stack) : stack[n].out.exc.cls # SortError.cls)

----------------------------------------------------------------------------
(* C12: when all the concurrent calls of add are over, the two dicts are   *)
(* those that the same calls leave when made one after another in some     *)
(* order.                                                                  *)

\* The dicts after add(a.regex, a.func, a.priority) on the dicts reg.
AddTo(reg, a) ==
    [funcs      |-> DictSet(reg.funcs, normalize(a.regex), a.func),
     priorities |-> PrioritySet(reg.priorities, a.func, a.priority)]

\* The dicts after the calls of the threads q[1], q[2], ... in this order.
RECURSIVE Serial(_)
Serial(q) ==
    IF q = <<>> THEN [funcs |-> <<>>, priorities |-> <<>>]
    ELSE AddTo(Serial(SubSeq(q, 1, Len(q) - 1)), adds[q[Len(q)]])

\* The orders of the threads.
Orders ==
    { q \in [1..Cardinality(Writers) -> Writers] :
        \A i \in DOMAIN q : \A j \in DOMAIN q : i # j => q[i] # q[j] }

\* A dict as the set of its items (dicts are equal whatever their order).
Items(fs) == { fs[i] : i \in 1..Len(fs) }

Serializable ==
    (\A w \in Writers : adds[w].pc = "done")
        => \E q \in Orders :
              /\ Items(Serial(q).funcs) = Items(funcs["outer"])
              /\ Serial(q).priorities = priorities["outer"]

----------------------------------------------------------------------------
(* C14: normalize gives its own results back unchanged, and gives the      *)
(* pattern written between ^ and $ the key of the pattern written without: *)
(* an add of a pattern changes the dicts exactly as the add of the same    *)
(* pattern between anchors, and as the add of its normalized form, with    *)
(* the same handler and priority.  (The candidates of every input are      *)
(* computed from the two dicts alone.)                                     *)

\* r written with a start and an end anchor.
Anchored(r) == << "^" >> \o r \o << "$" >>

NormalizeIdempotent ==
    [][ \A d \in Registering : \A r \in Regexes, f \in Handlers, p \in Priorities :
          Add(d, r, f, p) =>
              /\ normalize(normalize(r)) = normalize(r)
              /\ normalize(Anchored(r)) = normalize(r)
              /\ Add(d, Anchored(r), f, p)
              /\ Add(d, normalize(r), f, p) ]_vars

\* A key is stored that is the key of a pattern drawn without anchors and of
\* the same pattern drawn with them.
NormalizeIdempotentWitness ==
    \E r \in Regexes :
        /\ Anchored(r) \in Regexes
        /\ r # normalize(r)
        /\ normalize(r) \in Keys(funcs["outer"])

----------------------------------------------------------------------------
(* C15: no step of a dispatcher call (computing the candidates, a handler  *)
(* returning, declining or failing, the call ending in a result, in        *)
(* NoMatch or in the handler's failure) changes funcs or priorities of any *)
(* instance, and an add on one instance changes the dicts of no other.     *)
RegistryPrivate ==
    [][ /\ (stack # <<>> \/ stack' # <<>>)
            => (funcs' = funcs /\ priorities' = priorities)
        /\ \A d \in Dispatchers, r \in NestedRegexes, f \in Handlers, p \in Priorities :
              Add(d, r, f, p)
                  => \A e \in Dispatchers \ {d} :
                        funcs'[e] = funcs[e] /\ priorities'[e] = priorities[e] ]_vars

\* Both instances hold patterns, not the same, and a call of one of them is
\* over after calling a handler.
RegistryPrivateWitness ==
    /\ Len(stack) = 1 /\ Top.st = "done" /\ Top.log # <<>>
    /\ funcs["outer"] # <<>> /\ funcs["inner"] # <<>>
    /\ funcs["outer"] # funcs["inner"]

----------------------------------------------------------------------------
(* C16: after add(regex, func, priority), the same add again changes       *)
(* neither dict (the pattern keeps its handler and its place, the handler  *)
(* its priority), so the dicts, and the candidates computed from them, are *)
(* those after the first.                                                  *)
RegisterTwice ==
    [][ \A d \in Registering : \A r \in Regexes, f \in Handlers, p \in Priorities :
          Add(d, r, f, p) =>
              /\ DictSet(funcs'[d], normalize(r), f) = funcs'[d]
              /\ PrioritySet(priorities'[d], f, p) = priorities'[d] ]_vars

\* Several patterns are stored, and one that is not the last stored has a
\* handler whose priority is not the default: the add that stored it, made
\* again, is to keep the place of the pattern and the priority.
RegisterTwiceWitness ==
    /\ stack = <<>>
    /\ \E i \in 1..Len(funcs["outer"]) :
          /\ i < Len(funcs["outer"])
          /\ priorities["outer"][funcs["outer"][i].func] # DefaultPriority

----------------------------------------------------------------------------
(* C18: whenever no add is in progress, every handler stored in funcs has  *)
(* an integer recorded in priorities, whatever adds were made before, and  *)
(* also when an add gave a stored pattern another handler.                 *)
StoredHavePriority ==
    \A d \in Dispatchers : \A i \in 1..Len(funcs[d]) :
        /\ funcs[d][i].func \in DOMAIN priorities[d]
        /\ priorities[d][funcs[d][i].func] \in Int

\* Two patterns are stored with the same handler, after an add gave one of
\* them this handler in the place of the other handler, whose priority is
\* still recorded.
StoredHavePriorityWitness ==
    /\ Len(funcs["outer"]) >= 2
    /\ Funcs(funcs["outer"]) = {"g"}
    /\ DOMAIN priorities["outer"] = Handlers

----------------------------------------------------------------------------
(* C19: the candidates of a dispatcher call are as many as the stored      *)
(* patterns that re.match finds in the input, one per such pattern: no     *)
(* normalized pattern is stored twice, a handler stored under k of these   *)
(* patterns is k times among the candidates, and a call in which every     *)
(* handler declined has called it k times.                                 *)

\* How many times f is in the list fns.
Count(fns, f) == Cardinality({ i \in 1..Len(fns) : fns[i] = f })

\* The call of this frame is over with every candidate called and declining.
AllDeclined(fr) ==
    /\ fr.st = "done"
    /\ Len(fr.log) = Len(fr.cands)
    /\ \A i \in 1..Len(fr.log) : Declined(fr.log[i].out)

OnePerMatchingPattern ==
    /\ \A d \in Dispatchers : \A i \in 1..Len(funcs[d]) : \A j \in 1..Len(funcs[d]) :
          i # j => funcs[d][i].regex # funcs[d][j].regex
    /\ \A n \in 1..Len(stack) :
          \A fr \in { stack[n] } :
             ~DispatchRaises(fr.d) =>
                \A m \in { MatchingEntries(fr.d, fr.s) } :
                   /\ Len(fr.cands) = Cardinality(m)
                   /\ \A f \in Handlers :
                        \A k \in { Cardinality({ i \in m : funcs[fr.d][i].func = f }) } :
                           /\ Count(fr.cands, f) = k
                           /\ AllDeclined(fr) => Count(Invoked(fr), f) = k

\* A call is over in which a handler stored under two patterns that match
\* the input declined twice.
OnePerMatchingPatternWitness ==
    \E n \in 1..Len(stack) :
        /\ AllDeclined(stack[n])
        /\ \E f \in Handlers : Count(Invoked(stack[n]), f) = 2

----------------------------------------------------------------------------
(* C17: an HDFFile none of whose with-blocks (its own or those of its      *)
(* tables) is entered has cleanup as the last of create and cleanup        *)
(* applied to its resource, and the resource closed: right after           *)
(* construction, and whenever a with-statement is over, its body ended or  *)
(* failed, or its entering failed.                                         *)
ClosedAfterWith ==
    \A x \in Files :
        (hdf.file[x] /\ \A i \in 1..Len(hdf.blocks) : hdf.blocks[i].parent # x)
            => (hdf.last[x] = "cleanup" /\ hdf.rsrc[x] = "closed")

----------------------------------------------------------------------------
(* C20: the resource of the parent of every table whose with-block is      *)
(* entered is open, and every __exit__ applies cleanup to a resource that  *)
(* is open (one cleanup per opening, none on a resource already closed).   *)
TableKeepsOpen ==
    /\ [](\A i \in 1..Len(hdf.blocks) :
             hdf.blocks[i].kind = "table" => hdf.rsrc[hdf.blocks[i].parent] = "open")
    /\ [][ ExitBlock => hdf.rsrc[hdf.blocks[Len(hdf.blocks)].parent] = "open" ]_vars

====
